---- MODULE Spec2Model ----
(***************************************************************************)
(* Model of robustness-tester.py: the probe scheduler (main), the two      *)
(* signal probes (check_sigterm, check_sigkill) and the freeze probe       *)
(* (check_ptrace_stop) with its poll loop.  The engine is one sequential   *)
(* thread; its position is (fn, pc).  The operating system is the          *)
(* environment: every system call (pidof, kill, ptrace, waitpid, reading   *)
(* /proc/<pid>/status) answers with one of the outcomes it can produce.    *)
(***************************************************************************)
EXTENDS Integers, Sequences, FiniteSets, TLC

\* ---------------------------------------------------------------- bounds
\* process identifiers the process table can hold: 1..MaxPid
MaxPid == 3
\* most processes one name resolves to at once
MaxInstances == 2

PIDs == 1..MaxPid

Range(s) == {s[i] : i \in DOMAIN s}

\* what pidof can print: distinct identifiers, in any order
PidLists ==
  {s \in UNION {[1..n -> PIDs] : n \in 0..MaxInstances} :
     \A i, j \in DOMAIN s : i # j => s[i] # s[j]}

\* ------------------------------------------------------- program constants
SLEEP_CHECK_INTERVAL == 60 * 10
SLEEP_BETWEEN_C_APPLICATION_SIGNAL_TEST == 60 * 5
SLEEP_SIGTERM_SAFE_SHUTDOWN_TIME == 5
iterations == 10
sleeptime == 5
SIGSTOP == 19

\* the target catalog the module defines ('ptrace-stop' is spelled ptrace_stop)
Catalog ==
  [sigkill |-> <<"foo", "bar">>,
   sigterm |-> <<"foo", "bar">>,
   ptrace_stop |-> <<"runner">>]

\* ----------------------------------------------------------- pure helpers
\* Python's None as returned by pids_by_process_name: falsy like the empty list
None == <<>>

\* pids_by_process_name: pidof exits non-zero when nothing bears the name
pids_by_process_name(pidof) ==
  IF pidof.rc # 0 THEN None ELSE pidof.out

\* the answers of one pidof call
PidofAnswers ==
  {[rc |-> 1, out |-> <<>>]} \cup
  {[rc |-> 0, out |-> l] : l \in PidLists \ {<<>>}}

\* random.shuffle of a copy: any permutation of the bucket's list
IsPermutation(p, n) == \A i \in 1..n : \E j \in 1..n : p[j] = i

Shuffles(list) ==
  {[i \in 1..Len(list) |-> list[p[i]]] :
     p \in {q \in [1..Len(list) -> 1..Len(list)] : IsPermutation(q, Len(list))}}

applications_shuffled(catalog, bucket) == Shuffles(catalog[bucket])

\* list.sort(): the list in ascending order (in place), the call returns None
RECURSIVE Insert(_, _)
Insert(x, s) ==
  IF s = <<>> THEN <<x>>
  ELSE IF x <= Head(s) THEN <<x>> \o s
  ELSE <<Head(s)>> \o Insert(x, Tail(s))

RECURSIVE Sorted(_)
Sorted(s) == IF s = <<>> THEN <<>> ELSE Insert(Head(s), Sorted(Tail(s)))

list_sort(l) == [list |-> Sorted(l), ret |-> "None"]

\* str(x) of a non-negative integer
Digit(d) == CASE d = 0 -> "0" [] d = 1 -> "1" [] d = 2 -> "2" [] d = 3 -> "3"
              [] d = 4 -> "4" [] d = 5 -> "5" [] d = 6 -> "6" [] d = 7 -> "7"
              [] d = 8 -> "8" [] d = 9 -> "9"

RECURSIVE str(_)
str(n) == IF n < 10 THEN Digit(n) ELSE str(n \div 10) \o Digit(n % 10)

\* ', '.join(str(x) for x in l)
RECURSIVE join(_)
join(l) ==
  IF l = <<>> THEN ""
  ELSE IF Len(l) = 1 THEN str(l[1])
  ELSE str(Head(l)) \o ", " \o join(Tail(l))

\* pid_alive: os.kill(pid, 0); any OSError answers False
KillAnswers == {"ok", "ESRCH", "EPERM"}

pid_alive(kill) == kill = "ok"

\* reading /proc/<pid>/status: the fields the engine looks at, or no file
StatusAnswers ==
  {[readable |-> FALSE, tracerpid |-> 0, state |-> "none"]} \cup
  {[readable |-> TRUE, tracerpid |-> t, state |-> s] :
     t \in {0, 1}, s \in {"S (sleeping)", "t (tracing stop)", "Z (zombie)"}}

IsZombie(state) == state = "Z (zombie)"

\* is_process_debugged_no_zombie without the zombie test
is_process_debugged_no_zombie_NoZombieTest(status) ==
  IF ~status.readable THEN "raise"
  ELSE IF status.tracerpid = 0 THEN "False"
  ELSE "True"

\* is_process_debugged_no_zombie: "raise" stands for the NameError that the
\* except clause itself raises (Failure is no name of the program)
is_process_debugged_no_zombie(status) ==
  IF ~status.readable THEN "raise"
  ELSE IF status.tracerpid = 0 THEN "False"
  ELSE IF IsZombie(status.state) THEN "False"
  ELSE "True"

\* os.waitpid after the attach
WaitAnswers == {"stopped19", "stoppedOther", "notStopped"}

WIFSTOPPED(stat) == stat \in {"stopped19", "stoppedOther"}

WSTOPSIG(stat) == IF stat = "stopped19" THEN SIGSTOP ELSE 0


\* ------------------------------------------------------------ log messages
\* log(msg): the messages an action printed, by their text
MsgPrevNew(pids_str, new_pids_str) ==
  "Previous PID: " \o pids_str \o ", New PID: " \o new_pids_str

MsgWarnIdentical == "Warning: new PID and old PIDs are identical"
MsgAlive == "Application is alive, please check that it was properly finalized"
MsgNotDetectable == "application is not detectable!"
MsgRespawned == "Application was successfully respawed!"
MsgNotFound == "Error, process should be there, but cannot find it"
MsgCaught == "catched exception during signal"
MsgStillFrozen == "Noes, application still stopped and not restarted!"
MsgFine == "Application IS restarted or at least not stopped anymore - fine!"
MsgNotAlive == "not alive - seems to be restarted"

\* ------------------------------------------------------------------ state
VARIABLES
  args,          \* the three --disable-* flags
  APPLICATIONS,  \* the target catalog (module global)
  fn,            \* the function the engine is in
  pc,            \* its position in that function, or "aborted"
  exc,           \* the exception that ended the run, "" while it runs
  applications,  \* the shuffled list a check function iterates
  app_i,         \* index of the next element the for loop over it fetches
  application,   \* the loop variable
  pids,          \* the handles resolved for application
  pid_i,         \* index of the next element of pids the for loop fetches
  pid,           \* the loop variable
  new_pids,      \* the handles resolved after the safe-shutdown delay
  stat,          \* the wait status of os.waitpid
  probe,         \* poll iterations completed
  restarted,     \* what ptrace_stop_wait_until_killed returned
  logged,        \* the messages the last step printed
  slept,         \* seconds the last step slept
  traced,        \* OS: the last ptrace(ATTACH) took effect
  outstanding,   \* per identifier: attaches issued minus detaches issued
  resolved,      \* identifiers the current target resolved to before perturbation
  perturbed,     \* identifiers signalled or attached for the current target
  verified,      \* identifiers whose verification step ran for the current target
  t_poll,        \* seconds slept since the current poll loop began
  t_target,      \* seconds slept since the current signal-probe target was resolved
  data,          \* the status is_process_debugged_no_zombie read last
  obs,           \* what the last poll iteration saw
  transient      \* an expected-transient condition occurred in this cycle

config == <<args, APPLICATIONS>>
appvars == <<applications, app_i, application>>
pidvars == <<pids, pid_i, pid>>
freezevars == <<stat, probe, restarted, traced, t_poll, obs>>
target_ghost == <<resolved, perturbed, verified>>

vars == <<args, APPLICATIONS, fn, pc, exc, applications, app_i, application,
          pids, pid_i, pid, new_pids, stat, probe, restarted, logged, slept,
          traced, outstanding, resolved, perturbed, verified, t_poll,
          t_target, data, obs, transient>>

\* no status read yet
NoData == [readable |-> FALSE, tracerpid |-> 0, state |-> "none"]

ArgSets ==
  [disable_sigterm : BOOLEAN, disable_sigkill : BOOLEAN,
   disable_ptrace_stop : BOOLEAN]

Init ==
  /\ args \in ArgSets
  /\ APPLICATIONS = Catalog
  /\ fn = "main"
  /\ pc = "print_agenda"
  /\ exc = ""
  /\ applications = <<>>
  /\ app_i = 1
  /\ application = ""
  /\ pids = None
  /\ pid_i = 1
  /\ pid = 0
  /\ new_pids = None
  /\ stat = "none"
  /\ probe = 0
  /\ restarted = FALSE
  /\ logged = {}
  /\ slept = 0
  /\ traced = FALSE
  /\ outstanding = [p \in PIDs |-> 0]
  /\ resolved = {}
  /\ perturbed = {}
  /\ verified = {}
  /\ t_poll = 0
  /\ t_target = 0
  /\ data = NoData
  /\ obs = "none"
  /\ transient = FALSE

\* an exception nobody catches: it unwinds through main and ends the program
Raise(e) ==
  /\ pc' = "aborted"
  /\ exc' = e
  /\ UNCHANGED fn

\* a check function returns to main, its locals are gone
Return(next) ==
  /\ fn' = "main"
  /\ pc' = next
  /\ applications' = <<>>
  /\ app_i' = 1
  /\ application' = ""
  /\ pids' = None
  /\ pid_i' = 1
  /\ pid' = 0
  /\ new_pids' = None
  /\ UNCHANGED exc

Goto(label) ==
  /\ pc' = label
  /\ UNCHANGED <<fn, exc>>

\* ------------------------------------------------------------------- main
main_print_agenda ==
  /\ fn = "main" /\ pc = "print_agenda"
  /\ Goto("sigterm")
  /\ logged' = {"Robustness-Tester started"}
  /\ slept' = 0
  /\ UNCHANGED <<t_target, data, config, appvars, pidvars, new_pids, freezevars, outstanding,
                 target_ghost, transient>>

\* one 'if not args.disable_x: check_x()' of the loop body
MainStep(here, disabled, callee, next) ==
  /\ fn = "main" /\ pc = here
  /\ IF disabled
       THEN Goto(next)
       ELSE /\ fn' = callee
            /\ pc' = "entry"
            /\ UNCHANGED exc
  /\ logged' = {}
  /\ slept' = 0
  /\ UNCHANGED <<t_target, data, config, appvars, pidvars, new_pids, freezevars, outstanding,
                 target_ghost, transient>>

main_sigterm ==
  MainStep("sigterm", args.disable_sigterm, "check_sigterm", "sigkill")

main_sigkill ==
  MainStep("sigkill", args.disable_sigkill, "check_sigkill", "ptrace_stop")

main_ptrace_stop ==
  MainStep("ptrace_stop", args.disable_ptrace_stop, "check_ptrace_stop", "idle")

main_idle ==
  /\ fn = "main" /\ pc = "idle"
  /\ Goto("sigterm")
  /\ logged' = {"Sleeping until the next major test run"}
  /\ slept' = SLEEP_CHECK_INTERVAL
  /\ transient' = FALSE
  /\ UNCHANGED <<t_target, data, config, appvars, pidvars, new_pids, freezevars, outstanding,
                 target_ghost>>

\* the loop over a target's handles is over: its locals are dead until the
\* next target assigns them, the model clears them
EndTarget ==
  /\ pids' = None
  /\ pid_i' = 1
  /\ pid' = 0
  /\ resolved' = {}
  /\ perturbed' = {}
  /\ verified' = {}

\* where main continues after a check function
AfterCheck(f) ==
  CASE f = "check_sigterm" -> "sigkill"
    [] f = "check_sigkill" -> "ptrace_stop"
    [] f = "check_ptrace_stop" -> "idle"


\* ---------------------------------------------------------- signal probes
\* sigterm_Entry shuffling the catalog's own list (no copy made)
sigterm_Entry_ShuffleInPlace ==
  /\ fn = "check_sigterm" /\ pc = "entry"
  /\ \E apps \in applications_shuffled(APPLICATIONS, "sigterm") :
       /\ applications' = apps
       /\ APPLICATIONS' = [APPLICATIONS EXCEPT !.sigterm = apps]
  /\ app_i' = 1
  /\ Goto("for_app")
  /\ logged' = {"Test Suite: Sigterm Checks"}
  /\ slept' = 0
  /\ UNCHANGED <<t_target, data, args, application, pidvars, new_pids,
                 freezevars, outstanding, target_ghost, transient>>

\* log('Test Suite: ...') and the shuffled target list of the phase
sigterm_Entry ==
  /\ fn = "check_sigterm" /\ pc = "entry"
  /\ \E apps \in applications_shuffled(APPLICATIONS, "sigterm") :
       applications' = apps
  /\ app_i' = 1
  /\ Goto("for_app")
  /\ logged' = {"Test Suite: Sigterm Checks"}
  /\ slept' = 0
  /\ UNCHANGED <<t_target, data, config, application, pidvars, new_pids, freezevars,
                 outstanding, target_ghost, transient>>

sigkill_Entry ==
  /\ fn = "check_sigkill" /\ pc = "entry"
  /\ \E a \in applications_shuffled(APPLICATIONS, "sigkill"),
        b \in applications_shuffled(APPLICATIONS, "sigterm") :
       applications' = a \o b
  /\ app_i' = 1
  /\ Goto("for_app")
  /\ logged' = {"Test Suite: Sigkill Checks"}
  /\ slept' = 0
  /\ UNCHANGED <<t_target, data, config, application, pidvars, new_pids, freezevars,
                 outstanding, target_ghost, transient>>

\* SigNextApp with the 'continue' of the not-found branch missing: the target
\* falls through to the (empty) handle loop and the inter-target pause
SigNextApp_NoContinue(f) ==
  /\ fn = f /\ pc = "for_app"
  /\ slept' = 0
  /\ IF app_i > Len(applications)
       THEN /\ Return(AfterCheck(f))
            /\ logged' = {}
            /\ t_target' = 0
            /\ UNCHANGED <<target_ghost, transient>>
       ELSE /\ application' = applications[app_i]
            /\ app_i' = app_i + 1
            /\ \E answer \in PidofAnswers :
                 /\ pids' = pids_by_process_name(answer)
                 /\ resolved' = Range(pids')
            /\ pid_i' = 1
            /\ perturbed' = {}
            /\ verified' = {}
            /\ t_target' = 0
            /\ IF pids' = None
                 THEN /\ logged' = {"next checked application", MsgNotFound}
                      /\ transient' = TRUE
                 ELSE /\ logged' = {"next checked application"}
                      /\ UNCHANGED transient
            /\ Goto("for_pid")
            /\ UNCHANGED <<applications, pid, new_pids>>
  /\ UNCHANGED <<data, config, freezevars, outstanding>>

\* 'for application in ...': fetch the next target and resolve it; without a
\* process the target is skipped (continue); after the last target, return
SigNextApp(f) ==
  /\ fn = f /\ pc = "for_app"
  /\ slept' = 0
  /\ IF app_i > Len(applications)
       THEN /\ Return(AfterCheck(f))
            /\ logged' = {}
            /\ t_target' = 0
            /\ UNCHANGED <<target_ghost, transient>>
       ELSE /\ application' = applications[app_i]
            /\ app_i' = app_i + 1
            /\ \E answer \in PidofAnswers :
                 /\ pids' = pids_by_process_name(answer)
                 /\ resolved' = Range(pids')
            /\ pid_i' = 1
            /\ perturbed' = {}
            /\ verified' = {}
            /\ t_target' = 0
            /\ IF pids' = None
                 THEN /\ logged' = {"next checked application", MsgNotFound}
                      /\ transient' = TRUE
                      /\ Goto("for_app")
                 ELSE /\ logged' = {"next checked application"}
                      /\ UNCHANGED transient
                      /\ Goto("for_pid")
            /\ UNCHANGED <<applications, pid, new_pids>>
  /\ UNCHANGED <<data, config, freezevars, outstanding>>

sigterm_NextApp == SigNextApp("check_sigterm")

sigkill_NextApp == SigNextApp("check_sigkill")

\* 'for pid in pids': fetch the next handle and deliver the signal; an
\* exception of os.kill is caught and logged
SigNextPid(f) ==
  /\ fn = f /\ pc = "for_pid"
  /\ slept' = 0
  /\ IF pid_i > Len(pids)
       THEN /\ Goto("pause")
            /\ logged' = {}
            /\ EndTarget
            /\ UNCHANGED transient
       ELSE /\ pid' = pids[pid_i]
            /\ pid_i' = pid_i + 1
            /\ perturbed' = perturbed \cup {pid'}
            /\ \E kill \in KillAnswers :
                 /\ logged' = {"Send process signal"} \cup
                              (IF kill = "ok" THEN {} ELSE {MsgCaught})
                 /\ transient' = (transient \/ kill = "ESRCH")
            /\ Goto("safe_sleep")
            /\ UNCHANGED <<pids, resolved, verified>>
  /\ new_pids' = None
  /\ UNCHANGED <<t_target, data, config, appvars, freezevars, outstanding>>

sigterm_NextPid == SigNextPid("check_sigterm")

sigkill_NextPid == SigNextPid("check_sigkill")

\* SigSafeSleep without the sleep: the target is looked up again at once
SigSafeSleep_NoSleep(f) ==
  /\ fn = f /\ pc = "safe_sleep"
  /\ logged' = {"Now sleeping for process shutdown & restarting"}
  /\ slept' = 0
  /\ Goto("reresolve")
  /\ UNCHANGED <<t_target, data, config, appvars, pidvars, new_pids,
                 freezevars, outstanding, target_ghost, transient>>

\* time.sleep(SLEEP_SIGTERM_SAFE_SHUTDOWN_TIME)
SigSafeSleep(f) ==
  /\ fn = f /\ pc = "safe_sleep"
  /\ logged' = {"Now sleeping for process shutdown & restarting"}
  /\ slept' = SLEEP_SIGTERM_SAFE_SHUTDOWN_TIME
  /\ t_target' = t_target + SLEEP_SIGTERM_SAFE_SHUTDOWN_TIME
  /\ Goto("reresolve")
  /\ UNCHANGED <<data, config, appvars, pidvars, new_pids, freezevars, outstanding,
                 target_ghost, transient>>

sigterm_SafeSleep == SigSafeSleep("check_sigterm")

sigkill_SafeSleep == SigSafeSleep("check_sigkill")

\* new_pids = pids_by_process_name(application)
SigReresolve(f) ==
  /\ fn = f /\ pc = "reresolve"
  /\ \E answer \in PidofAnswers : new_pids' = pids_by_process_name(answer)
  /\ logged' = {}
  /\ slept' = 0
  /\ Goto("classify")
  /\ UNCHANGED <<t_target, data, config, appvars, pidvars, freezevars, outstanding,
                 target_ghost, transient>>

sigterm_Reresolve == SigReresolve("check_sigterm")

sigkill_Reresolve == SigReresolve("check_sigkill")

\* check_sigterm's outcome: both lists are sorted in place, the two None
\* that list.sort() returns are compared, and the 'new' string is built from pids
sigterm_Classify ==
  /\ fn = "check_sigterm" /\ pc = "classify"
  /\ IF new_pids # None
       THEN LET a == list_sort(new_pids)
                b == list_sort(pids)
                pids_str == join(b.list)
                new_pids_str == join(b.list)
            IN /\ new_pids' = a.list
               /\ pids' = b.list
               /\ logged' = {MsgAlive, MsgPrevNew(pids_str, new_pids_str)} \cup
                            (IF a.ret = b.ret THEN {MsgWarnIdentical} ELSE {})
       ELSE /\ logged' = {MsgNotDetectable}
            /\ UNCHANGED <<pids, new_pids>>
  /\ verified' = verified \cup {pid}
  /\ slept' = 0
  /\ Goto("for_pid")
  /\ UNCHANGED <<t_target, data, config, appvars, pid_i, pid, freezevars, outstanding,
                 resolved, perturbed, transient>>

\* check_sigkill's outcome: any process bearing the name counts as respawned
sigkill_Classify ==
  /\ fn = "check_sigkill" /\ pc = "classify"
  /\ logged' = IF new_pids # None THEN {MsgRespawned} ELSE {MsgNotDetectable}
  /\ verified' = verified \cup {pid}
  /\ slept' = 0
  /\ Goto("for_pid")
  /\ UNCHANGED <<t_target, data, config, appvars, pidvars, new_pids, freezevars, outstanding,
                 resolved, perturbed, transient>>

\* time.sleep(SLEEP_BETWEEN_C_APPLICATION_SIGNAL_TEST)
SigPause(f) ==
  /\ fn = f /\ pc = "pause"
  /\ logged' = {"Robustness-Tester will now pause"}
  /\ slept' = SLEEP_BETWEEN_C_APPLICATION_SIGNAL_TEST
  /\ t_target' = t_target + SLEEP_BETWEEN_C_APPLICATION_SIGNAL_TEST
  /\ Goto("for_app")
  /\ UNCHANGED <<data, config, appvars, pidvars, new_pids, freezevars, outstanding,
                 target_ghost, transient>>

sigterm_Pause == SigPause("check_sigterm")

sigkill_Pause == SigPause("check_sigkill")


\* ------------------------------------------------------------ freeze probe
\* the shuffled freeze targets; an empty list would raise "not implemented
\* yet", which the catalog of the module never does
ptrace_Entry ==
  /\ fn = "check_ptrace_stop" /\ pc = "entry"
  /\ \E apps \in applications_shuffled(APPLICATIONS, "ptrace_stop") :
       /\ applications' = apps
       /\ IF Len(apps) <= 0 THEN Raise("Exception") ELSE Goto("for_app")
  /\ app_i' = 1
  /\ logged' = {"Test Suite: Ptrace Stop Checks"}
  /\ slept' = 0
  /\ UNCHANGED <<t_target, data, config, application, pidvars, new_pids, freezevars,
                 outstanding, target_ghost, transient>>

\* 'for application in applications': resolve the next target, skip it when
\* no process bears the name, return after the last one
ptrace_NextApp ==
  /\ fn = "check_ptrace_stop" /\ pc = "for_app"
  /\ slept' = 0
  /\ IF app_i > Len(applications)
       THEN /\ Return(AfterCheck("check_ptrace_stop"))
            /\ logged' = {}
            /\ UNCHANGED <<target_ghost, transient>>
       ELSE /\ application' = applications[app_i]
            /\ app_i' = app_i + 1
            /\ \E answer \in PidofAnswers :
                 /\ pids' = pids_by_process_name(answer)
                 /\ resolved' = Range(pids')
            /\ pid_i' = 1
            /\ perturbed' = {}
            /\ verified' = {}
            /\ IF pids' = None
                 THEN /\ logged' = {MsgNotFound}
                      /\ transient' = TRUE
                      /\ Goto("for_app")
                 ELSE /\ logged' = {}
                      /\ UNCHANGED transient
                      /\ Goto("for_pid")
            /\ UNCHANGED <<applications, pid, new_pids>>
  /\ UNCHANGED <<t_target, data, config, freezevars, outstanding>>

\* 'for pid in pids': fetch the next handle and issue ptrace(PTRACE_ATTACH);
\* the return value of the call is not looked at
ptrace_NextPid ==
  /\ fn = "check_ptrace_stop" /\ pc = "for_pid"
  /\ slept' = 0
  /\ IF pid_i > Len(pids)
       THEN /\ Goto("for_app")
            /\ logged' = {}
            /\ EndTarget
            /\ UNCHANGED <<traced, outstanding>>
       ELSE /\ pid' = pids[pid_i]
            /\ pid_i' = pid_i + 1
            /\ perturbed' = perturbed \cup {pid'}
            /\ outstanding' = [outstanding EXCEPT ![pid'] = @ + 1]
            /\ traced' \in BOOLEAN
            /\ logged' = {"Stop now with ptrace(ATTACH, pid, ...)"}
            /\ Goto("waitpid")
            /\ UNCHANGED <<pids, resolved, verified>>
  \* what the previous handle left in stat, probe and restarted is dead
  /\ stat' = "none"
  /\ probe' = 0
  /\ restarted' = FALSE
  /\ t_poll' = 0
  /\ obs' = "none"
  /\ data' = NoData
  /\ UNCHANGED <<t_target, config, appvars, new_pids, transient>>

\* stat = os.waitpid(pid, 0): a process that is neither child nor tracee
\* makes the call raise ChildProcessError
ptrace_Waitpid ==
  /\ fn = "check_ptrace_stop" /\ pc = "waitpid"
  /\ IF traced
       THEN /\ stat' \in WaitAnswers
            /\ Goto("stopcheck")
       ELSE /\ Raise("ChildProcessError")
            /\ UNCHANGED stat
  /\ logged' = {}
  /\ slept' = 0
  /\ UNCHANGED <<t_target, data, config, appvars, pidvars, new_pids, probe, restarted, traced,
                 t_poll, obs, outstanding, target_ghost, transient>>

\* the three-way log of the wait status; the last branch calls log with two
\* arguments, which raises TypeError
ptrace_StopCheck ==
  /\ fn = "check_ptrace_stop" /\ pc = "stopcheck"
  /\ IF WIFSTOPPED(stat)
       THEN /\ logged' = IF WSTOPSIG(stat) = SIGSTOP
                           THEN {"Application stopped!"}
                           ELSE {"Application stopped with unusal status!"}
            /\ Goto("poll_enter")
       ELSE /\ logged' = {}
            /\ Raise("TypeError")
  /\ slept' = 0
  /\ UNCHANGED <<t_target, data, config, appvars, pidvars, new_pids, freezevars, outstanding,
                 target_ghost, transient>>

\* ptrace_stop_wait_until_killed: the call and its prologue
poll_Enter ==
  /\ fn = "check_ptrace_stop" /\ pc = "poll_enter"
  /\ probe' = 0
  /\ t_poll' = 0
  /\ obs' = "none"
  /\ logged' = {"Wait until application is restarted"}
  /\ slept' = 0
  /\ Goto("poll_alive")
  /\ UNCHANGED <<t_target, data, config, appvars, pidvars, new_pids, stat, restarted, traced,
                 outstanding, target_ghost, transient>>

\* 'for probe in range(iterations)' and the liveness check; the loop running
\* out returns False
poll_Alive ==
  /\ fn = "check_ptrace_stop" /\ pc = "poll_alive"
  /\ IF probe >= iterations
       THEN /\ restarted' = FALSE
            /\ logged' = {}
            /\ Goto("after_poll")
            /\ UNCHANGED obs
       ELSE \E kill \in KillAnswers :
              IF ~pid_alive(kill)
                THEN /\ restarted' = TRUE
                     /\ obs' = IF kill = "ESRCH" THEN "gone" ELSE "denied"
                     /\ logged' = {MsgNotAlive}
                     /\ Goto("after_poll")
                ELSE /\ logged' = {}
                     /\ Goto("poll_debugged")
                     /\ UNCHANGED <<restarted, obs>>
  /\ slept' = 0
  /\ UNCHANGED <<t_target, data, config, appvars, pidvars, new_pids, stat, probe, traced,
                 t_poll, outstanding, target_ghost, transient>>

\* 'if not is_process_debugged_no_zombie(pid)': an unreadable status ends in
\* the NameError of the except clause, which nothing catches
poll_Debugged ==
  /\ fn = "check_ptrace_stop" /\ pc = "poll_debugged"
  /\ \E status \in StatusAnswers :
       LET debugged == is_process_debugged_no_zombie(status)
       IN CASE debugged = "raise" ->
                 /\ obs' = "unreadable"
                 /\ UNCHANGED data
                 /\ logged' = {}
                 /\ Raise("NameError")
                 /\ UNCHANGED restarted
            [] debugged = "False" ->
                 /\ obs' = "undebugged"
                 /\ data' = status
                 /\ restarted' = TRUE
                 /\ logged' = {"not debugged (anymore)"}
                 /\ Goto("after_poll")
            [] debugged = "True" ->
                 /\ obs' = "frozen"
                 /\ data' = status
                 /\ logged' = {}
                 /\ Goto("poll_sleep")
                 /\ UNCHANGED restarted
  /\ slept' = 0
  /\ UNCHANGED <<t_target, config, appvars, pidvars, new_pids, stat, probe, traced,
                 t_poll, outstanding, target_ghost, transient>>

\* the rest of the loop body: two log lines and time.sleep(sleeptime)
poll_Sleep ==
  /\ fn = "check_ptrace_stop" /\ pc = "poll_sleep"
  /\ logged' = {"still alive and ptrace attached stopped!"}
  /\ slept' = sleeptime
  /\ t_poll' = t_poll + sleeptime
  \* data is a local of is_process_debugged_no_zombie, which has returned
  /\ data' = NoData
  /\ probe' = probe + 1
  /\ Goto("poll_alive")
  /\ UNCHANGED <<t_target, config, appvars, pidvars, new_pids, stat, restarted, traced,
                 obs, outstanding, target_ghost, transient>>

\* the log of what the poll loop returned
ptrace_AfterPoll ==
  /\ fn = "check_ptrace_stop" /\ pc = "after_poll"
  /\ logged' = IF ~restarted THEN {MsgStillFrozen} ELSE {MsgFine}
  /\ verified' = verified \cup {pid}
  /\ slept' = 0
  /\ Goto("detach")
  /\ UNCHANGED <<t_target, data, config, appvars, pidvars, new_pids, freezevars, outstanding,
                 resolved, perturbed, transient>>

\* ptrace_Detach without the call: the handle stays attached
ptrace_Detach_Missing ==
  /\ fn = "check_ptrace_stop" /\ pc = "detach"
  /\ transient' = (transient \/ obs = "gone")
  /\ logged' = {}
  /\ slept' = 0
  /\ Goto("for_pid")
  /\ UNCHANGED <<t_target, data, config, appvars, pidvars, new_pids,
                 freezevars, outstanding, target_ghost>>

\* ptrace_Detach with the detach moved into the 'restarted' branch: the
\* still-frozen path leaves without detaching
ptrace_Detach_OnlyWhenRestarted ==
  /\ fn = "check_ptrace_stop" /\ pc = "detach"
  /\ outstanding' = IF restarted
                      THEN [outstanding EXCEPT ![pid] = @ - 1]
                      ELSE outstanding
  /\ traced' = FALSE
  /\ transient' = (transient \/ obs = "gone")
  /\ logged' = {}
  /\ slept' = 0
  /\ Goto("for_pid")
  /\ UNCHANGED <<t_target, data, config, appvars, pidvars, new_pids, stat, probe, restarted,
                 t_poll, obs, target_ghost>>

\* libc.ptrace(PTRACE_DETACH, pid, None, None): a C call, it never raises
ptrace_Detach ==
  /\ fn = "check_ptrace_stop" /\ pc = "detach"
  /\ outstanding' = [outstanding EXCEPT ![pid] = @ - 1]
  /\ traced' = FALSE
  /\ transient' = (transient \/ obs = "gone")
  /\ logged' = {}
  /\ slept' = 0
  /\ Goto("for_pid")
  /\ UNCHANGED <<t_target, data, config, appvars, pidvars, new_pids, stat, probe, restarted,
                 t_poll, obs, target_ghost>>

\* ---------------------------------------------------------- specification
Next ==
  \/ main_print_agenda
  \/ main_sigterm
  \/ main_sigkill
  \/ main_ptrace_stop
  \/ main_idle
  \/ sigterm_Entry
  \/ sigterm_NextApp
  \/ sigterm_NextPid
  \/ sigterm_SafeSleep
  \/ sigterm_Reresolve
  \/ sigterm_Classify
  \/ sigterm_Pause
  \/ sigkill_Entry
  \/ sigkill_NextApp
  \/ sigkill_NextPid
  \/ sigkill_SafeSleep
  \/ sigkill_Reresolve
  \/ sigkill_Classify
  \/ sigkill_Pause
  \/ ptrace_Entry
  \/ ptrace_NextApp
  \/ ptrace_NextPid
  \/ ptrace_Waitpid
  \/ ptrace_StopCheck
  \/ poll_Enter
  \/ poll_Alive
  \/ poll_Debugged
  \/ poll_Sleep
  \/ ptrace_AfterPoll
  \/ ptrace_Detach

Spec == Init /\ [][Next]_vars


\* ----------------------------------------------------------------- claims
InFreeze == fn = "check_ptrace_stop"

InSignalProbe == fn \in {"check_sigterm", "check_sigkill"}

\* the positions between the attach of a handle and its detach
HandleStep ==
  {"waitpid", "stopcheck", "poll_enter", "poll_alive", "poll_debugged",
   "poll_sleep", "after_poll", "detach"}

\* the last step was the outcome step of a signal probe
JustClassified ==
  /\ InSignalProbe
  /\ pc = "for_pid"
  /\ logged \cap {MsgAlive, MsgRespawned, MsgNotDetectable} # {}

\* C1: in the freeze probe every attach issued on an identifier is matched by
\* exactly one detach on that identifier before the next handle, whether the
\* poll loop returned 'recovered' or ran out ('still frozen'): once the poll
\* loop has returned the attach of the current handle is the one outstanding,
\* outside the handle's step nothing is outstanding, and the count never
\* leaves {0, 1} (no second detach, no detach without attach).
C1_DetachOncePerAttach ==
  /\ \A p \in PIDs : outstanding[p] \in {0, 1}
  /\ \A p \in PIDs :
       outstanding[p] = 1 =>
         /\ p = pid
         /\ InFreeze
         /\ pc \in HandleStep \cup {"aborted"}
  /\ (InFreeze /\ pc \in {"after_poll", "detach"}) => outstanding[pid] = 1

\* the probe is back at the handle loop after a poll loop that ran out of
\* iterations, and the handle is detached
C1_Witness ==
  /\ InFreeze /\ pc = "for_pid"
  /\ pid # 0
  /\ ~restarted
  /\ probe = iterations
  /\ outstanding[pid] = 0

\* C2: every attach issued is followed by a detach on every exit path of the
\* per-handle step, error paths included: no identifier has an attach
\* outstanding once the engine is outside the per-handle step.
C2_DetachOnEveryExitPath ==
  \A p \in PIDs :
    outstanding[p] > 0 => (InFreeze /\ pc \in HandleStep)

\* C3: after a signal probe, a re-resolved set that is non-empty and disjoint
\* from the pre-perturbation set is reported as restarted, without the
\* 'new PID and old PIDs are identical' warning.
C3_DisjointIsRestarted ==
  (/\ JustClassified
   /\ new_pids # None
   /\ Range(new_pids) \cap resolved = {})
  => MsgWarnIdentical \notin logged

\* C4: in both signal probes a re-resolved set equal to the pre-perturbation
\* set gives the survived-unchanged warning and is never reported as a
\* successful respawn.
C4_IdenticalIsSurvivedUnchanged ==
  (/\ JustClassified
   /\ new_pids # None
   /\ Range(new_pids) = resolved)
  => (MsgWarnIdentical \in logged /\ MsgRespawned \notin logged)

\* C5: the poll loop ends after at most 10 iterations and 10 sleeps; it
\* returns True in the first iteration that sees the process not alive or not
\* debugger-attached-and-non-zombie (an unreadable status included), without
\* sleeping in that iteration, and returns False exactly when all 10 checks
\* saw it alive and attached.
C5_PollLoopBounded ==
  /\ probe <= iterations
  /\ t_poll = probe * sleeptime
  /\ obs \in {"gone", "denied", "undebugged", "unreadable"} =>
       (restarted /\ probe < iterations /\ pc # "aborted")
  /\ (InFreeze /\ pc = "after_poll") =>
       /\ restarted <=> obs \in {"gone", "denied", "undebugged", "unreadable"}
       /\ ~restarted <=> (probe = iterations /\ obs = "frozen")

\* C6: when a target resolves to two or more identifiers, every one of them
\* is perturbed and verified, and a failure on one handle does not keep the
\* others from being processed (all three probes).
C6_EveryHandleProcessed ==
  Cardinality(resolved) >= 2 =>
    ((pc = "aborted" \/ (pc = "for_pid" /\ pid_i > Len(pids)))
       => (perturbed = resolved /\ verified = resolved))

\* C7: a target without a process at lookup time in a signal probe is logged
\* as an anomaly, receives no signal, costs neither the safe-shutdown nor the
\* inter-target delay, and the probe is at the loop head for the next target.
C7_NotFoundSkipsTarget ==
  (InSignalProbe /\ MsgNotFound \in logged) =>
    /\ pc = "for_app"
    /\ exc = ""
    /\ slept = 0
    /\ perturbed = {}
    /\ pids = None
    /\ app_i >= 2
    /\ application = applications[app_i - 1]

\* a signal probe has just skipped a target that is not the last of its phase
C7_Witness ==
  /\ InSignalProbe
  /\ MsgNotFound \in logged
  /\ app_i <= Len(applications)

\* C8: the engine never signals or attaches process identifier 1, whatever
\* the process lookup returns.
C8_NeverPerturbsPid1 == 1 \notin perturbed

\* C9: main runs Sigterm, Sigkill, Freeze, Idle and Sigterm again in that
\* order, forever: a disabled phase is skipped, an enabled one is entered and
\* returns to the next position, and no step ends the run.
C9_FixedOrderForever ==
  [][/\ pc' # "aborted"
     /\ (fn = "main" /\ fn' = "main") =>
          \/ pc = "print_agenda" /\ pc' = "sigterm"
          \/ pc = "sigterm" /\ args.disable_sigterm /\ pc' = "sigkill"
          \/ pc = "sigkill" /\ args.disable_sigkill /\ pc' = "ptrace_stop"
          \/ pc = "ptrace_stop" /\ args.disable_ptrace_stop /\ pc' = "idle"
          \/ pc = "idle" /\ slept' = SLEEP_CHECK_INTERVAL /\ pc' = "sigterm"
     /\ (fn = "main" /\ fn' # "main") =>
          \/ pc = "sigterm" /\ ~args.disable_sigterm /\ fn' = "check_sigterm"
          \/ pc = "sigkill" /\ ~args.disable_sigkill /\ fn' = "check_sigkill"
          \/ pc = "ptrace_stop" /\ ~args.disable_ptrace_stop
               /\ fn' = "check_ptrace_stop"
     /\ (fn # "main" /\ fn' = "main") => pc' = AfterCheck(fn)
    ]_vars

\* C10: after an expected-transient condition (target not running at lookup,
\* signal delivery racing with the exit of the process, detach of a process
\* already gone) the run is not aborted: the cycle in which it occurred goes on
\* to its Idle sleep.
C10_TransientNeverAborts == pc = "aborted" => ~transient


\* C11: a status that cannot be read, because the process exited between
\* pid_alive and proc_status_get, counts as 'not debugged': the poll loop
\* returns 'recovered' and no error leaves it.
C11_UnreadableCountsAsRecovered ==
  obs = "unreadable" => (exc = "" /\ restarted)

\* C12: pid_alive answers true exactly for an identifier that exists, also
\* when the engine may not signal it, so the poll loop logs 'not alive -
\* seems to be restarted' only for an identifier that is gone.
C12_NotAliveOnlyWhenGone ==
  MsgNotAlive \in logged => obs = "gone"

\* C13: a signal probe that finds the target alive after the delay logs the
\* previous identifiers and, as 'new', the identifiers resolved after the
\* delay (scenario A: SIGKILL, one process, restarted under a new identifier).
C13_LogsOldAndNewIdentifiers ==
  (JustClassified /\ new_pids # None) =>
    MsgPrevNew(join(Sorted(pids)), join(Sorted(new_pids))) \in logged

\* C14: whatever os.waitpid reports (stop by signal 19, stop by another
\* signal, no stop at all) the probe logs one message and goes on to the poll
\* loop and the detach; only the text differs.
C14_AnyWaitStatusProceeds ==
  /\ (InFreeze /\ stat \in WaitAnswers /\ pc # "stopcheck") =>
       ~(pc = "aborted" /\ exc = "TypeError")
  /\ (InFreeze /\ pc = "poll_enter") =>
       (stat \in WaitAnswers /\ Cardinality(logged) = 1)


\* C15: in a signal probe the steps of a handle are: deliver the signal,
\* sleep the safe-shutdown delay, re-resolve, classify; no lookup result
\* exists before the delay has been slept, the outcome (recovered or not
\* detectable) is decided by the lookup made after it, with one delay slept
\* per handle fetched, and the inter-target delay is slept once,
\* after the handle loop and before the next target is resolved (never for a
\* target without handles).
C15_DelayBeforeVerification ==
  InSignalProbe =>
    /\ pc = "safe_sleep" =>
         /\ pid \in perturbed
         /\ new_pids = None
         /\ t_target = SLEEP_SIGTERM_SAFE_SHUTDOWN_TIME * (pid_i - 2)
    /\ pc = "reresolve" =>
         /\ new_pids = None
         /\ slept = SLEEP_SIGTERM_SAFE_SHUTDOWN_TIME
    /\ pc \in {"reresolve", "classify", "for_pid"} =>
         t_target = SLEEP_SIGTERM_SAFE_SHUTDOWN_TIME * (pid_i - 1)
    /\ JustClassified =>
         (MsgNotDetectable \in logged <=> new_pids = None)
    /\ pc = "pause" =>
         /\ t_target >= SLEEP_SIGTERM_SAFE_SHUTDOWN_TIME
         /\ t_target < SLEEP_BETWEEN_C_APPLICATION_SIGNAL_TEST
    /\ pc = "for_app" =>
         \/ t_target = 0 /\ slept = 0
         \/ /\ slept = SLEEP_BETWEEN_C_APPLICATION_SIGNAL_TEST
            /\ t_target > SLEEP_BETWEEN_C_APPLICATION_SIGNAL_TEST
            /\ t_target < 2 * SLEEP_BETWEEN_C_APPLICATION_SIGNAL_TEST

\* a target with two handles is done: two safe-shutdown delays and one
\* inter-target delay were slept
C15_Witness ==
  /\ InSignalProbe /\ pc = "for_app"
  /\ t_target = SLEEP_BETWEEN_C_APPLICATION_SIGNAL_TEST
                  + 2 * SLEEP_SIGTERM_SAFE_SHUTDOWN_TIME

\* C16: every signal or attach is issued on an identifier that the lookup
\* returned for the target after the most recent perturbation of that target:
\* either it is the first handle since the target was resolved, or the
\* identifier is in the lookup made after the previous handle's signal.
C16_NoCachedIdentifier ==
  [][(pc = "for_pid" /\ pc' \in {"safe_sleep", "waitpid"}) =>
       \/ pid_i = 1
       \/ InSignalProbe /\ pid' \in Range(new_pids)
    ]_vars

\* C17: the debug-state check answers True exactly for a readable status with
\* a tracer and a state that is not zombie; a traced zombie is 'not debugged'
\* and the poll loop returns 'recovered' for it.
C17_ZombieIsNotDebugged ==
  data # NoData =>
    LET actionable == /\ data.readable
                      /\ data.tracerpid # 0
                      /\ data.state # "Z (zombie)"
    IN /\ obs = "frozen" <=> actionable
       /\ obs = "undebugged" <=> ~actionable
       /\ ~actionable =>
            /\ restarted
            /\ exc = ""
            /\ pc \in {"after_poll", "detach", "for_pid"}

\* the poll loop has just returned 'recovered' for a traced zombie
C17_Witness ==
  /\ InFreeze /\ pc = "after_poll"
  /\ data.readable /\ data.tracerpid # 0 /\ data.state = "Z (zombie)"
  /\ restarted

\* C18: at most one identifier is held attached at any time, the handle loop
\* issues an attach only when none is held, and no step of main or of a
\* signal probe runs while one is held.
C18_ProbesNeverOverlap ==
  /\ Cardinality({p \in PIDs : outstanding[p] # 0}) <= 1
  /\ (InFreeze /\ pc \in {"for_pid", "for_app", "entry"}) =>
       \A p \in PIDs : outstanding[p] = 0
  /\ (InSignalProbe \/ fn = "main") => \A p \in PIDs : outstanding[p] = 0

\* the second handle of a target is attached, the first one is detached
C18_Witness ==
  /\ InFreeze /\ pc = "waitpid"
  /\ pid_i = 3
  /\ outstanding[pid] = 1
  /\ outstanding[pids[1]] = 0

\* C19: the forceful phase visits the union of the forceful and the graceful
\* list, each distinct target name once per cycle.
C19_SigkillVisitsEachTargetOnce ==
  (fn = "check_sigkill" /\ pc # "entry") =>
    /\ Range(applications) =
         Range(APPLICATIONS.sigkill) \cup Range(APPLICATIONS.sigterm)
    /\ \A i, j \in DOMAIN applications :
         i # j => applications[i] # applications[j]

\* same elements with the same multiplicities
IsReordering(a, b) ==
  /\ Len(a) = Len(b)
  /\ \A x \in Range(a) \cup Range(b) :
       Cardinality({i \in DOMAIN a : a[i] = x}) =
       Cardinality({i \in DOMAIN b : b[i] = x})

\* C20: no operation changes the catalog, and the list a phase iterates is a
\* reordering of the catalog's list of its bucket (for the forceful phase: of
\* the forceful list followed by one of the graceful list), drawn when the
\* phase starts.
C20_CatalogNeverModified ==
  /\ APPLICATIONS = Catalog
  /\ (fn = "check_sigterm" /\ pc # "entry") =>
       IsReordering(applications, APPLICATIONS.sigterm)
  /\ (fn = "check_sigkill" /\ pc # "entry") =>
       LET n == Len(APPLICATIONS.sigkill)
       IN /\ Len(applications) = n + Len(APPLICATIONS.sigterm)
          /\ IsReordering(SubSeq(applications, 1, n), APPLICATIONS.sigkill)
          /\ IsReordering(SubSeq(applications, n + 1, Len(applications)),
                          APPLICATIONS.sigterm)
  /\ (fn = "check_ptrace_stop" /\ pc # "entry") =>
       IsReordering(applications, APPLICATIONS.ptrace_stop)
  /\ (fn = "main") => applications = <<>>

\* a phase iterates the graceful list in another order than the catalog's,
\* and the catalog still has its own order
C20_Witness ==
  /\ fn = "check_sigterm" /\ pc = "for_app"
  /\ applications # APPLICATIONS.sigterm
  /\ APPLICATIONS.sigterm = <<"foo", "bar">>

====
